---- MODULE Spec2Model ----
(***************************************************************************)
(* kubetest2-gke deployer, up.go: Up and createClusters.                   *)
(*                                                                         *)
(* Up runs init, project preparation, network creation, createClusters and *)
(* testSetup in sequence.  createClusters loops over the candidate         *)
(* locations; every attempt fans one createCluster goroutine out per       *)
(* (project, cluster) pair through an errgroup.Group, waits for all of     *)
(* them, and on a retryable error starts a detached goroutine that deletes *)
(* the clusters and subnets of the attempt before the next attempt.        *)
(*                                                                         *)
(* Errors are sequences of text tokens; the nil error is the empty         *)
(* sequence.  A regular expression is modelled as a literal token sequence *)
(* and MatchString as a search for it anywhere in the message.             *)
(***************************************************************************)
EXTENDS Integers, Sequences, FiniteSets, TLC

\* ------------------------------------------------------------------------
\* Bounds of the model
\* ------------------------------------------------------------------------
\* longest region list that is tried
MaxRegions == 2
\* longest zone list that is tried
MaxZones == 1
\* largest number of GCP projects in the topology
MaxProjects == 2

\* ------------------------------------------------------------------------
\* Values
\* ------------------------------------------------------------------------
NilErr == <<>>

\* combined output of a failed gcloud invocation
Outputs == { <<"quota">>, <<"denied">> }

\* the values --retryable-error-patterns may have been compiled to
PatternSets == { <<>>, << <<"stockout">>, <<"quota">> >> }

RegionName(i) == <<"region", i>>
ZoneName(i) == <<"zone", i>>
ProjectName(i) == <<"project", i>>
ClusterName(i, j) == <<"cluster", i, j>>

\* number of clusters the layout puts in the i-th project
NumClusters(i) == IF i = 1 THEN 2 ELSE 1

Max(a, b) == IF a > b THEN a ELSE b

VARIABLES
    regions,                        \* d.regions
    zones,                          \* d.zones
    projects,                       \* d.projects
    projectClustersLayout,          \* d.projectClustersLayout
    retryableErrorPatternsCompiled, \* d.retryableErrorPatternsCompiled
    RepoRoot,                       \* d.RepoRoot
    d_retryCount,                   \* d.retryCount
    testPrepared,                   \* d.testPrepared
    uppc,                           \* position of Up
    upResult,                       \* error returned by Up
    deferred,                       \* Up's deferred function is registered
    dumps,                          \* calls of DumpClusterLogs
    setups,                         \* runs of the test setup steps
    ccpc,                           \* position of createClusters
    retryCount,                     \* loop variable of createClusters
    ccResult,                       \* error returned by createClusters
    eg,                             \* the errgroup.Group of the attempt
    locationArg,                    \* locationArg of the attempt
    gi,                             \* index i of the project loop
    gj,                             \* index j of the cluster loop
    ops,                            \* goroutines started by eg.Go
    tasks,                          \* detached rollback goroutines
    deleted,                        \* log of deleteClusters/deleteSubnets calls
    attempts,                       \* history: attempt indices entered
    outcomes,                       \* history: outcome of each concluded attempt
    firstFailed,                    \* history: first operation to fail in the attempt
    kubecfgPath,                    \* d.kubecfgPath
    kubeLocation,                   \* location of the last getClusterCredentials of Kubeconfig
    upSteps,                        \* history: the steps of Up that have ended
    dumpFailed,                     \* history: DumpClusterLogs returned an error
    setupCalls,                     \* history: the results of the calls of testSetup
    callArgs,                       \* arguments of the last call of generateClusterNames
    callResult                      \* its result

config == <<regions, zones, projects, projectClustersLayout,
            retryableErrorPatternsCompiled, RepoRoot>>
upvars == <<uppc, upResult, deferred, dumps, setups, testPrepared, kubecfgPath,
            kubeLocation, upSteps, dumpFailed, setupCalls>>
fnvars == <<callArgs, callResult>>
ccvars == <<ccpc, retryCount, d_retryCount, ccResult, locationArg, gi, gj>>
egvars == <<eg, ops, firstFailed>>
rbvars == <<tasks, deleted>>
hist == <<attempts, outcomes>>
vars == <<config, fnvars, upvars, ccvars, egvars, rbvars, hist>>

\* ------------------------------------------------------------------------
\* Pure functions
\* ------------------------------------------------------------------------
\* regexp.MatchString: the pattern occurs somewhere in the message
MatchString(regx, msg) ==
    \E i \in 1..(Len(msg) + 1) :
        /\ i + Len(regx) - 1 <= Len(msg)
        /\ SubSeq(msg, i, i + Len(regx) - 1) = regx

isRetryableErrorNever(patterns, err) == FALSE

isRetryableError(patterns, err) ==
    \E k \in 1..Len(patterns) : MatchString(patterns[k], err)

\* element of a location list for an attempt; a list that is too short
\* keeps its last element, an empty list gives none
pick(list, idx) ==
    IF Len(list) = 0 THEN <<>>
    ELSE IF idx + 1 <= Len(list) THEN list[idx + 1]
    ELSE list[Len(list)]

locationFlag(rg, zn, idx) == [region |-> pick(rg, idx), zone |-> pick(zn, idx)]

regionFromLocation(rg, zn, idx) == locationFlag(rg, zn, idx)

subNetworkArgs(projs, region, i) == [project |-> projs[i], region |-> region]

\* fmt.Errorf("error creating cluster: %v, output: %q", err, output)
createClusterError(output) == <<"error creating cluster:", "exit status 1", "output:">> \o output

\* fmt.Errorf("error creating clusters: %v", err)
createClustersError(err) == <<"error creating clusters:">> \o err

\* fmt.Errorf("error creating the clusters: %w", err)
upCreateError(err) == <<"error creating the clusters:">> \o err

\* fmt.Errorf("error running setup for the tests: %w", err)
upSetupError(err) == <<"error running setup for the tests:">> \o err

totalTryCount == Max(Len(regions), Len(zones))

loopConditionLeq(rc, total) == rc <= total

\* the loop condition retryCount < totalTryCount
loopCondition(rc, total) == rc < total

\* ------------------------------------------------------------------------
\* errgroup.Group
\* ------------------------------------------------------------------------
withContextGroup == [err |-> NilErr, cancel |-> TRUE, ctxDone |-> FALSE]

\* new(errgroup.Group): the zero Group has no cancel function
newGroup == [err |-> NilErr, cancel |-> FALSE, ctxDone |-> FALSE]

groupFailLast(g, e) == [g EXCEPT !.err = e, !.ctxDone = g.cancel]

\* what a goroutine of Group.Go does with a non-nil error: errOnce keeps the
\* first one and calls cancel when the Group has one
groupFail(g, e) ==
    IF g.err = NilErr
    THEN [g EXCEPT !.err = e, !.ctxDone = g.cancel]
    ELSE g

\* Group.Wait, once the goroutines are done, calls cancel when the Group has one
groupWait(g) == [g EXCEPT !.ctxDone = g.ctxDone \/ g.cancel]

wgWaitAny(o) == TRUE

\* Group.Wait blocks until every goroutine started by Go has returned
wgWait(o) == \A k \in DOMAIN o : o[k].status # "running"

\* ------------------------------------------------------------------------
\* Initial states
\* ------------------------------------------------------------------------
Init ==
    /\ \E nr \in 0..MaxRegions, nz \in 0..MaxZones :
          /\ regions = [i \in 1..nr |-> RegionName(i - 1)]
          /\ zones = [i \in 1..nz |-> ZoneName(i - 1)]
    /\ \E np \in 1..MaxProjects :
          /\ projects = [i \in 1..np |-> ProjectName(i)]
          /\ projectClustersLayout =
                [i \in 1..np |-> [j \in 1..NumClusters(i) |-> ClusterName(i, j)]]
    /\ retryableErrorPatternsCompiled \in PatternSets
    /\ RepoRoot \in {"", "repo"}
    /\ d_retryCount = 0
    /\ testPrepared = FALSE
    /\ uppc = "init"
    /\ upResult = NilErr
    /\ deferred = FALSE
    /\ dumps = 0
    /\ setups = 0
    /\ ccpc = "idle"
    /\ retryCount = 0
    /\ ccResult = NilErr
    /\ eg = newGroup
    /\ locationArg = locationFlag(<<>>, <<>>, 0)
    /\ gi = 1
    /\ gj = 1
    /\ ops = <<>>
    /\ tasks = <<>>
    /\ deleted = {}
    /\ attempts = <<>>
    /\ outcomes = <<>>
    /\ firstFailed = <<>>
    /\ kubecfgPath = ""
    /\ kubeLocation = locationFlag(<<>>, <<>>, 0)
    /\ upSteps = <<>>
    /\ dumpFailed = FALSE
    /\ setupCalls = <<>>
    /\ callArgs = [called |-> FALSE, numClusters |-> 0, uid |-> <<>>]
    /\ callResult = <<>>

\* ------------------------------------------------------------------------
\* createClusters
\* ------------------------------------------------------------------------
\* the record of a concluded attempt: what its operations did and the error
\* the fan-out reported
conclusion ==
    [attempt |-> attempts[Len(attempts)],
     anyFailed |-> \E k \in DOMAIN ops : ops[k].status = "failed",
     dispatched |-> Len(ops),
     err |-> eg.err,
     setupErr |-> NilErr]

\* the error of a failed per-attempt setup step: the command's output, which
\* may read like any other gcloud failure
setupStepError(step, output) == <<step, "failed:">> \o output

\* Up calls d.createClusters()
CallCreateClusters ==
    /\ uppc = "createClusters"
    /\ ccpc = "idle"
    /\ ccpc' = "loop"
    /\ retryCount' = 0
    /\ UNCHANGED <<config, fnvars, upvars, d_retryCount, ccResult, locationArg, gi, gj,
                   egvars, rbvars, hist>>

\* the loop entered without d.retryCount = retryCount
LoopEnterNoStore ==
    /\ ccpc = "loop"
    /\ loopCondition(retryCount, totalTryCount)
    /\ attempts' = Append(attempts, retryCount)
    /\ ccpc' = "createSubnets"
    /\ UNCHANGED <<config, fnvars, upvars, retryCount, d_retryCount, ccResult, locationArg,
                   gi, gj, egvars, rbvars, outcomes>>

\* for retryCount := 0; retryCount < totalTryCount; retryCount++ { d.retryCount = retryCount
LoopEnter ==
    /\ ccpc = "loop"
    /\ loopCondition(retryCount, totalTryCount)
    /\ d_retryCount' = retryCount
    /\ attempts' = Append(attempts, retryCount)
    /\ ccpc' = "createSubnets"
    /\ UNCHANGED <<config, fnvars, upvars, retryCount, ccResult, locationArg, gi, gj,
                   egvars, rbvars, outcomes>>

\* the loop ends and createClusters returns nil
LoopExit ==
    /\ ccpc = "loop"
    /\ ~loopCondition(retryCount, totalTryCount)
    /\ ccResult' = NilErr
    /\ ccpc' = "returned"
    /\ UNCHANGED <<config, fnvars, upvars, retryCount, d_retryCount, locationArg, gi, gj,
                   egvars, rbvars, hist>>

\* createSubnets whose error is classified like the error of the fan-out
CreateSubnetsClassified ==
    /\ ccpc = "createSubnets"
    /\ \E ok \in BOOLEAN, output \in Outputs :
          LET err == setupStepError("createSubnets", output)
              o == [attempt |-> retryCount, anyFailed |-> FALSE,
                    dispatched |-> 0, err |-> NilErr, setupErr |-> err]
          IN IF ok
             THEN /\ ccpc' = "setupNetwork"
                  /\ UNCHANGED <<ccResult, outcomes, retryCount, tasks>>
             ELSE IF isRetryableError(retryableErrorPatternsCompiled, err)
             THEN /\ tasks' = Append(tasks,
                        [origin |-> retryCount, r |-> retryCount, pc |-> "deleteClusters"])
                  /\ outcomes' = Append(outcomes, o)
                  /\ retryCount' = retryCount + 1
                  /\ ccpc' = "loop"
                  /\ UNCHANGED ccResult
             ELSE /\ ccResult' = err
                  /\ ccpc' = "returned"
                  /\ outcomes' = Append(outcomes, o)
                  /\ UNCHANGED <<retryCount, tasks>>
    /\ UNCHANGED <<config, fnvars, upvars, d_retryCount, locationArg, gi, gj,
                   egvars, deleted, attempts>>

\* if err := d.createSubnets(); err != nil { return err }
CreateSubnets ==
    /\ ccpc = "createSubnets"
    /\ \/ /\ ccpc' = "setupNetwork"
          /\ UNCHANGED <<ccResult, outcomes>>
       \/ \E output \in Outputs :
             LET err == setupStepError("createSubnets", output)
             IN /\ ccResult' = err
                /\ ccpc' = "returned"
                /\ outcomes' = Append(outcomes,
                      [attempt |-> retryCount, anyFailed |-> FALSE,
                       dispatched |-> 0, err |-> NilErr, setupErr |-> err])
    /\ UNCHANGED <<config, fnvars, upvars, retryCount, d_retryCount, locationArg, gi, gj,
                   egvars, rbvars, attempts>>

\* if err := d.setupNetwork(); err != nil { return err }
SetupNetwork ==
    /\ ccpc = "setupNetwork"
    /\ \/ /\ ccpc' = "newGroup"
          /\ UNCHANGED <<ccResult, outcomes>>
       \/ \E output \in Outputs :
             LET err == setupStepError("setupNetwork", output)
             IN /\ ccResult' = err
                /\ ccpc' = "returned"
                /\ outcomes' = Append(outcomes,
                      [attempt |-> retryCount, anyFailed |-> FALSE,
                       dispatched |-> 0, err |-> NilErr, setupErr |-> err])
    /\ UNCHANGED <<config, fnvars, upvars, retryCount, d_retryCount, locationArg, gi, gj,
                   egvars, rbvars, attempts>>

locationArgFirst(rc) == locationFlag(regions, zones, 0)

\* locationFlag(d.regions, d.zones, retryCount)
locationArgOf(rc) == locationFlag(regions, zones, rc)

\* eg := new(errgroup.Group); locationArg := locationFlag(...)
NewGroup ==
    /\ ccpc = "newGroup"
    /\ eg' = newGroup
    /\ locationArg' = locationArgOf(retryCount)
    /\ ops' = <<>>
    /\ firstFailed' = <<>>
    /\ gi' = 1
    /\ gj' = 1
    /\ ccpc' = "go"
    /\ UNCHANGED <<config, fnvars, upvars, retryCount, d_retryCount, ccResult, rbvars, hist>>

\* one iteration of the cluster loop: eg.Go(func() error { return
\* d.createCluster(project, cluster, subNetworkArgs, locationArg) })
Go ==
    /\ ccpc = "go"
    /\ gi <= Len(projects)
    /\ LET project == projects[gi]
           clusters == projectClustersLayout[gi]
           snArgs == subNetworkArgs(projects,
                        regionFromLocation(regions, zones, d_retryCount), gi)
           last == gj = Len(clusters)
       IN /\ ops' = Append(ops,
                [pair |-> <<gi, gj>>, project |-> project, cluster |-> clusters[gj],
                 subNetworkArgs |-> snArgs, locationArg |-> locationArg,
                 attempt |-> retryCount, status |-> "running", used |-> <<>>])
          /\ gi' = IF last THEN gi + 1 ELSE gi
          /\ gj' = IF last THEN 1 ELSE gj + 1
          /\ ccpc' = IF last /\ gi = Len(projects) THEN "wait" ELSE "go"
    /\ UNCHANGED <<config, fnvars, upvars, retryCount, d_retryCount, ccResult, locationArg,
                   eg, firstFailed, rbvars, hist>>

\* the arguments of a closure whose variables were declared once, outside the
\* loops: it reads whatever the loops hold when it runs
sharedLoopArgs(k) ==
    LET i == IF gi > Len(projects) THEN Len(projects) ELSE gi
        j == IF gj > Len(projectClustersLayout[i])
             THEN Len(projectClustersLayout[i]) ELSE gj
    IN [project |-> projects[i], cluster |-> projectClustersLayout[i][j],
        subNetworkArgs |-> subNetworkArgs(projects,
                              regionFromLocation(regions, zones, d_retryCount), i),
        locationArg |-> locationArg]

\* func() error { return d.createCluster(project, cluster, subNetworkArgs,
\* locationArg) }: project, cluster and subNetworkArgs are declared inside the
\* loops, so the closure of operation k reads the values of its own iteration
closureArgs(k) ==
    [project |-> ops[k].project, cluster |-> ops[k].cluster,
     subNetworkArgs |-> ops[k].subNetworkArgs, locationArg |-> ops[k].locationArg]

\* createCluster: gcloud exits 0
OpSucceed(k) ==
    /\ ops[k].status = "running"
    /\ ops' = [ops EXCEPT ![k].status = "ok", ![k].used = closureArgs(k)]
    /\ UNCHANGED <<config, fnvars, upvars, ccvars, eg, firstFailed, rbvars, hist>>

\* createCluster: gcloud fails; the goroutine of eg.Go records the error
OpFail(k, output) ==
    /\ ops[k].status = "running"
    /\ ops' = [ops EXCEPT ![k].status = "failed", ![k].used = closureArgs(k)]
    /\ eg' = groupFail(eg, createClusterError(output))
    /\ firstFailed' =
          IF \E n \in DOMAIN ops : ops[n].status = "failed"
          THEN firstFailed
          ELSE <<k, createClusterError(output)>>
    /\ UNCHANGED <<config, fnvars, upvars, ccvars, rbvars, hist>>

\* eg.Wait() of line 124
Wait ==
    /\ ccpc = "wait"
    /\ wgWait(ops)
    /\ eg' = groupWait(eg)
    /\ ccpc' = "decide"
    /\ UNCHANGED <<config, fnvars, upvars, retryCount, d_retryCount, ccResult, locationArg,
                   gi, gj, ops, firstFailed, rbvars, hist>>

rollbackTaskNext(rc) ==
    [origin |-> attempts[Len(attempts)], r |-> rc + 1, pc |-> "deleteClusters"]

\* the goroutine go func() { d.deleteClusters(r); d.deleteSubnets(r) }()
\* with r := retryCount
rollbackTask(rc) ==
    [origin |-> attempts[Len(attempts)], r |-> rc, pc |-> "deleteClusters"]

WaitNilContinue ==
    /\ ccpc = "decide"
    /\ wgWait(ops)
    /\ eg.err = NilErr
    /\ outcomes' = Append(outcomes, conclusion)
    /\ retryCount' = retryCount + 1
    /\ ccpc' = "loop"
    /\ UNCHANGED <<config, fnvars, upvars, d_retryCount, ccResult, locationArg, gi, gj,
                   egvars, rbvars, attempts>>

\* if err := eg.Wait(); err != nil {...} else { return nil }
WaitNil ==
    /\ ccpc = "decide"
    /\ wgWait(ops)
    /\ eg.err = NilErr
    /\ outcomes' = Append(outcomes, conclusion)
    /\ ccResult' = NilErr
    /\ ccpc' = "returned"
    /\ UNCHANGED <<config, fnvars, upvars, retryCount, d_retryCount, locationArg, gi, gj,
                   egvars, rbvars, attempts>>

\* err != nil and d.isRetryableError(err): start the rollback goroutine and
\* go on with the next iteration of the loop
WaitRetryable ==
    /\ ccpc = "decide"
    /\ wgWait(ops)
    /\ eg.err # NilErr
    /\ isRetryableError(retryableErrorPatternsCompiled, eg.err)
    /\ outcomes' = Append(outcomes, conclusion)
    /\ tasks' = Append(tasks, rollbackTask(retryCount))
    /\ retryCount' = retryCount + 1
    /\ ccpc' = "loop"
    /\ UNCHANGED <<config, fnvars, upvars, d_retryCount, ccResult, locationArg, gi, gj,
                   egvars, deleted, attempts>>

WaitFatalRetry ==
    /\ ccpc = "decide"
    /\ wgWait(ops)
    /\ eg.err # NilErr
    /\ ~isRetryableError(retryableErrorPatternsCompiled, eg.err)
    /\ outcomes' = Append(outcomes, conclusion)
    /\ tasks' = Append(tasks, rollbackTask(retryCount))
    /\ retryCount' = retryCount + 1
    /\ ccpc' = "loop"
    /\ UNCHANGED <<config, fnvars, upvars, d_retryCount, ccResult, locationArg, gi, gj,
                   egvars, deleted, attempts>>

\* err != nil and not retryable:
\* return fmt.Errorf("error creating clusters: %v", err)
WaitFatal ==
    /\ ccpc = "decide"
    /\ wgWait(ops)
    /\ eg.err # NilErr
    /\ ~isRetryableError(retryableErrorPatternsCompiled, eg.err)
    /\ outcomes' = Append(outcomes, conclusion)
    /\ ccResult' = createClustersError(eg.err)
    /\ ccpc' = "returned"
    /\ UNCHANGED <<config, fnvars, upvars, retryCount, d_retryCount, locationArg, gi, gj,
                   egvars, rbvars, attempts>>

\* ------------------------------------------------------------------------
\* The detached rollback goroutine
\* ------------------------------------------------------------------------
rollbackIndexShared(t) == d_retryCount

\* the attempt index the goroutine deletes with: its captured r
rollbackIndex(t) == tasks[t].r

\* d.deleteClusters(r): it returns nothing, so whether the deletions worked
\* leaves no trace in the program
RollbackDeleteClusters(t) ==
    /\ tasks[t].pc = "deleteClusters"
    /\ tasks' = [tasks EXCEPT ![t].pc = "deleteSubnets"]
    /\ deleted' = deleted \cup
          {[what |-> "clusters", origin |-> tasks[t].origin, index |-> rollbackIndex(t)]}
    /\ UNCHANGED <<config, fnvars, upvars, ccvars, egvars, hist>>

\* d.deleteSubnets(r): the error it returns is dropped
RollbackDeleteSubnets(t) ==
    /\ tasks[t].pc = "deleteSubnets"
    /\ tasks' = [tasks EXCEPT ![t].pc = "done"]
    /\ deleted' = deleted \cup
          {[what |-> "subnets", origin |-> tasks[t].origin, index |-> rollbackIndex(t)]}
    /\ UNCHANGED <<config, fnvars, upvars, ccvars, egvars, hist>>

\* ------------------------------------------------------------------------
\* Up and testSetup
\* ------------------------------------------------------------------------
\* if err := d.init(); err != nil { return err }; defer func() {...}()
UpInit ==
    /\ uppc = "init"
    /\ \E ok \in BOOLEAN :
          /\ upSteps' = Append(upSteps, [name |-> "init", ok |-> ok])
          /\ IF ok
             THEN /\ deferred' = TRUE
                  /\ uppc' = "prepareGcp"
                  /\ UNCHANGED upResult
             ELSE /\ upResult' = <<"init failed">>
                  /\ uppc' = "done"
                  /\ UNCHANGED deferred
    /\ UNCHANGED <<config, fnvars, dumps, setups, testPrepared, kubecfgPath, kubeLocation,
                   dumpFailed, setupCalls, ccvars, egvars, rbvars, hist>>

UpPrepareGcpIgnored ==
    /\ uppc = "prepareGcp"
    /\ \E ok \in BOOLEAN :
          upSteps' = Append(upSteps, [name |-> "prepareGcp", ok |-> ok])
    /\ uppc' = "createNetwork"
    /\ UNCHANGED <<config, fnvars, upResult, deferred, dumps, setups, testPrepared,
                   kubecfgPath, kubeLocation, dumpFailed, setupCalls, ccvars, egvars,
                   rbvars, hist>>

\* if err := d.prepareGcpIfNeeded(d.projects[0]); err != nil { return err }
UpPrepareGcp ==
    /\ uppc = "prepareGcp"
    /\ \E ok \in BOOLEAN :
          /\ upSteps' = Append(upSteps, [name |-> "prepareGcp", ok |-> ok])
          /\ IF ok
             THEN /\ uppc' = "createNetwork"
                  /\ UNCHANGED upResult
             ELSE /\ upResult' = <<"prepareGcp failed">>
                  /\ uppc' = "defer"
    /\ UNCHANGED <<config, fnvars, deferred, dumps, setups, testPrepared, kubecfgPath,
                   kubeLocation, dumpFailed, setupCalls, ccvars, egvars, rbvars, hist>>

\* if err := d.createNetwork(); err != nil { return err }
UpCreateNetwork ==
    /\ uppc = "createNetwork"
    /\ \E ok \in BOOLEAN :
          /\ upSteps' = Append(upSteps, [name |-> "createNetwork", ok |-> ok])
          /\ IF ok
             THEN /\ uppc' = "createClusters"
                  /\ UNCHANGED upResult
             ELSE /\ upResult' = <<"createNetwork failed">>
                  /\ uppc' = "defer"
    /\ UNCHANGED <<config, fnvars, deferred, dumps, setups, testPrepared, kubecfgPath,
                   kubeLocation, dumpFailed, setupCalls, ccvars, egvars, rbvars, hist>>

\* if err := d.createClusters(); err != nil { return fmt.Errorf(...) }
UpCreateClustersReturned ==
    /\ uppc = "createClusters"
    /\ ccpc = "returned"
    /\ upSteps' = Append(upSteps, [name |-> "createClusters", ok |-> ccResult = NilErr])
    /\ IF ccResult # NilErr
       THEN /\ upResult' = upCreateError(ccResult)
            /\ uppc' = "defer"
       ELSE /\ uppc' = "testSetup"
            /\ UNCHANGED upResult
    /\ UNCHANGED <<config, fnvars, deferred, dumps, setups, testPrepared, kubecfgPath,
                   kubeLocation, dumpFailed, setupCalls, ccvars, egvars, rbvars, hist>>

\* the steps of testSetup after the singleton guard
SetupSteps == <<"prepareGcpIfNeeded", "Kubeconfig", "getInstanceGroups",
                "ensureFirewallRules">>

\* testSetup: nil at once when d.testPrepared; otherwise the steps in order,
\* the first failure is returned, and d.testPrepared = true after the last
stepsRun(failAt) == SubSeq(SetupSteps, 1, IF failAt = 0 THEN Len(SetupSteps) ELSE failAt)

testSetupFlagFirst(failAt) ==
    IF testPrepared
    THEN [err |-> NilErr, prepared |-> testPrepared, ran |-> 0, steps |-> <<>>,
          kubecfg |-> kubecfgPath, location |-> kubeLocation]
    ELSE [err |-> IF failAt = 0 THEN NilErr ELSE <<SetupSteps[failAt], "failed">>,
          prepared |-> TRUE, ran |-> 1, steps |-> stepsRun(failAt),
          kubecfg |-> kubecfgPath, location |-> kubeLocation]

\* Kubeconfig (step 2) returns d.kubecfgPath when it is set; otherwise it
\* fetches the credentials at locationFlag(d.regions, d.zones, d.retryCount)
\* and sets d.kubecfgPath when every fetch worked
testSetup(failAt) ==
    IF testPrepared
    THEN [err |-> NilErr, prepared |-> testPrepared, ran |-> 0, steps |-> <<>>,
          kubecfg |-> kubecfgPath, location |-> kubeLocation]
    ELSE LET fetched == failAt # 1 /\ kubecfgPath = ""
             loc == IF fetched
                    THEN locationFlag(regions, zones, d_retryCount)
                    ELSE kubeLocation
             cfg == IF failAt \notin {1, 2} THEN "kubeconfig" ELSE kubecfgPath
         IN IF failAt = 0
            THEN [err |-> NilErr, prepared |-> TRUE, ran |-> 1,
                  steps |-> stepsRun(failAt), kubecfg |-> cfg, location |-> loc]
            ELSE [err |-> <<SetupSteps[failAt], "failed">>, prepared |-> FALSE,
                  ran |-> 1, steps |-> stepsRun(failAt), kubecfg |-> cfg,
                  location |-> loc]

\* the location IsUp hands to getClusterCredentials:
\* locationFlag(d.regions, d.zones, d.retryCount)
isUpLocation == locationFlag(regions, zones, d_retryCount)

\* the steps a call of testSetup can fail at: Kubeconfig cannot fail once
\* d.kubecfgPath is set
FailPoints == {f \in 0..Len(SetupSteps) : f = 2 => kubecfgPath = ""}

\* if err := d.testSetup(); err != nil { return fmt.Errorf(...) }; return nil
UpTestSetup ==
    /\ uppc = "testSetup"
    /\ \E failAt \in FailPoints :
          LET res == testSetup(failAt)
          IN /\ testPrepared' = res.prepared
             /\ setups' = setups + res.ran
             /\ kubecfgPath' = res.kubecfg
             /\ kubeLocation' = res.location
             /\ setupCalls' = Append(setupCalls, [err |-> res.err, steps |-> res.steps])
             /\ upSteps' = Append(upSteps, [name |-> "testSetup", ok |-> res.err = NilErr])
             /\ upResult' = IF res.err # NilErr THEN upSetupError(res.err) ELSE NilErr
    /\ uppc' = "defer"
    /\ UNCHANGED <<config, fnvars, deferred, dumps, dumpFailed, ccvars, egvars, rbvars,
                   hist>>

UpDeferredMasking ==
    /\ uppc = "defer"
    /\ deferred
    /\ IF RepoRoot = ""
       THEN UNCHANGED <<dumps, dumpFailed, upResult>>
       ELSE \E ok \in BOOLEAN :
               /\ dumps' = dumps + 1
               /\ dumpFailed' = ~ok
               /\ upResult' = IF ok THEN upResult ELSE <<"DumpClusterLogs failed">>
    /\ uppc' = "done"
    /\ UNCHANGED <<config, fnvars, deferred, setups, testPrepared, kubecfgPath,
                   kubeLocation, upSteps, setupCalls, ccvars, egvars, rbvars, hist>>

\* the deferred function: DumpClusterLogs unless d.RepoRoot == ""; its error
\* is only logged
UpDeferred ==
    /\ uppc = "defer"
    /\ deferred
    /\ IF RepoRoot = ""
       THEN UNCHANGED <<dumps, dumpFailed>>
       ELSE \E ok \in BOOLEAN :
               /\ dumps' = dumps + 1
               /\ dumpFailed' = ~ok
    /\ uppc' = "done"
    /\ UNCHANGED <<config, fnvars, upResult, deferred, setups, testPrepared, kubecfgPath,
                   kubeLocation, upSteps, setupCalls, ccvars, egvars, rbvars, hist>>

\* ------------------------------------------------------------------------
\* Specification
\* ------------------------------------------------------------------------
Coordinator ==
    \/ CallCreateClusters
    \/ LoopEnter
    \/ LoopExit
    \/ CreateSubnets
    \/ SetupNetwork
    \/ NewGroup
    \/ Go
    \/ Wait
    \/ WaitNil
    \/ WaitRetryable
    \/ WaitFatal

Operations ==
    \E k \in DOMAIN ops :
        \/ OpSucceed(k)
        \/ \E output \in Outputs : OpFail(k, output)

Rollbacks ==
    \E t \in DOMAIN tasks :
        \/ RollbackDeleteClusters(t)
        \/ RollbackDeleteSubnets(t)

UpSteps ==
    \/ UpInit
    \/ UpPrepareGcp
    \/ UpCreateNetwork
    \/ UpCreateClustersReturned
    \/ UpTestSetup
    \/ UpDeferred

Next ==
    \/ Coordinator
    \/ Operations
    \/ Rollbacks
    \/ UpSteps

Spec == Init /\ [][Next]_vars

\* d.testSetup() called again and again on one deployer
MaxSetupCalls == 3

CallTestSetup ==
    /\ Len(setupCalls) < MaxSetupCalls
    /\ \E failAt \in FailPoints :
          LET res == testSetup(failAt)
          IN /\ testPrepared' = res.prepared
             /\ setups' = setups + res.ran
             /\ kubecfgPath' = res.kubecfg
             /\ kubeLocation' = res.location
             /\ setupCalls' = Append(setupCalls, [err |-> res.err, steps |-> res.steps])
    /\ UNCHANGED <<config, fnvars, uppc, upResult, deferred, dumps, upSteps, dumpFailed,
                   ccvars, egvars, rbvars, hist>>

SetupSpec == Init /\ [][CallTestSetup]_vars

\* ------------------------------------------------------------------------
\* generateClusterNames; a string is the sequence of its characters
\* ------------------------------------------------------------------------
MaxNames == 11
MaxUidLen == 35

UidChars == <<"a", "7", "-">>

\* the uids the function is called with: every length up to MaxUidLen, in
\* three character arrangements
Uids ==
    {[k \in 1..l |-> UidChars[((k * m) % 3) + 1]] : l \in 0..MaxUidLen, m \in 1..3}

Digits == <<"0", "1", "2", "3", "4", "5", "6", "7", "8", "9">>

RECURSIVE Itoa(_)
\* strconv.Itoa of a non-negative int
Itoa(i) ==
    IF i < 10 THEN <<Digits[i + 1]>>
    ELSE Itoa(i \div 10) \o <<Digits[(i % 10) + 1]>>

fixedClusterNamePrefix == <<"k", "t", "2", "-">>

maxIDLength == 33

\* the id part of a name: the uid cut to maxIDLength characters and "-"
idOf(uid) ==
    IF uid # <<>>
    THEN (IF Len(uid) > maxIDLength THEN SubSeq(uid, 1, maxIDLength) ELSE uid) \o <<"-">>
    ELSE <<>>

generateClusterNamesZeroBased(numClusters, uid) ==
    [i \in 1..numClusters |-> fixedClusterNamePrefix \o idOf(uid) \o Itoa(i - 1)]

\* clusters[i-1] = fixedClusterNamePrefix + id + clusterNameSuffix
generateClusterNames(numClusters, uid) ==
    [i \in 1..numClusters |-> fixedClusterNamePrefix \o idOf(uid) \o Itoa(i)]

\* one call of generateClusterNames(numClusters, uid)
GenerateNames ==
    /\ ~callArgs.called
    /\ \E numClusters \in 0..MaxNames, uid \in Uids :
          /\ callArgs' = [called |-> TRUE, numClusters |-> numClusters, uid |-> uid]
          /\ callResult' = generateClusterNames(numClusters, uid)
    /\ UNCHANGED <<config, upvars, ccvars, egvars, rbvars, hist>>

NamesSpec == Init /\ [][GenerateNames]_vars

\* goroutines are scheduled, and every external command ends
FairSpec ==
    /\ Spec
    /\ WF_vars(Coordinator)
    /\ WF_vars(Operations)
    /\ WF_vars(UpSteps)

\* ------------------------------------------------------------------------
\* Vocabulary of the properties
\* ------------------------------------------------------------------------
\* number of candidate locations
Locations == IF Len(regions) > Len(zones) THEN Len(regions) ELSE Len(zones)

\* the (project, cluster) pairs of the topology
Pairs ==
    UNION {{<<i, j>> : j \in DOMAIN projectClustersLayout[i]} : i \in DOMAIN projects}

\* some configured pattern occurs in the message
Matches(err) ==
    \E k \in DOMAIN retryableErrorPatternsCompiled :
       LET pat == retryableErrorPatternsCompiled[k]
       IN \E i \in 0..Len(err) :
             /\ i + Len(pat) <= Len(err)
             /\ \A x \in 1..Len(pat) : err[i + x] = pat[x]

\* the attempt ended with every operation of the topology successful
Succeeded(o) == o.dispatched = Cardinality(Pairs) /\ ~o.anyFailed

\* the fan-out of the attempt reported a retryable error
RetryableFailed(o) == o.err # NilErr /\ Matches(o.err)

\* the fan-out of the attempt reported an error that no pattern matches
FatalFailed(o) == o.err # NilErr /\ ~Matches(o.err)

\* err ends with the message tail
EndsWith(err, tail) ==
    /\ Len(tail) <= Len(err)
    /\ SubSeq(err, Len(err) - Len(tail) + 1, Len(err)) = tail

RollbackOf(attempt) == {t \in DOMAIN tasks : tasks[t].origin = attempt}

\* ------------------------------------------------------------------------
\* C1: when every attempt has failed with a retryable error, createClusters
\* returns a non-nil error that carries the error of the last attempt.
\* ------------------------------------------------------------------------
C1_ExhaustedReturnsLastError ==
    ( /\ ccpc = "returned"
      /\ Locations >= 1
      /\ Len(outcomes) = Locations
      /\ \A n \in DOMAIN outcomes : RetryableFailed(outcomes[n]) )
    => ( /\ ccResult # NilErr
         /\ EndsWith(ccResult, outcomes[Len(outcomes)].err) )

\* ------------------------------------------------------------------------
\* C2: createClusters makes at most max(len(regions), len(zones)) attempts,
\* their indices are 0, 1, 2, ... in order, and once it is called it returns
\* when the operations it dispatched end.
\* ------------------------------------------------------------------------
C2_AttemptsInOrder ==
    /\ Len(attempts) <= Locations
    /\ \A n \in DOMAIN attempts : attempts[n] = n - 1

C2_BoundedAttemptsAndTermination ==
    /\ []C2_AttemptsInOrder
    /\ [](ccpc # "idle" => <>(ccpc = "returned"))

C2_Witness ==
    /\ ccpc = "returned"
    /\ Locations >= 2
    /\ Len(attempts) = Locations

\* ------------------------------------------------------------------------
\* C3: an error of the fan-out that no pattern matches makes createClusters
\* return a non-nil error in the same step: the attempt gets no rollback and
\* no later attempt is entered.
\* ------------------------------------------------------------------------
C3_FatalReturnsAtOnce ==
    \A n \in DOMAIN outcomes :
        FatalFailed(outcomes[n]) =>
            /\ n = Len(outcomes)
            /\ Len(attempts) = n
            /\ ccpc = "returned"
            /\ ccResult # NilErr
            /\ EndsWith(ccResult, outcomes[n].err)
            /\ RollbackOf(outcomes[n].attempt) = {}
            /\ \A e \in deleted : e.index # outcomes[n].attempt

C3_Witness ==
    \E n \in DOMAIN outcomes :
        /\ FatalFailed(outcomes[n])
        /\ n < Locations
        /\ ccpc = "returned"

\* ------------------------------------------------------------------------
\* C4: an attempt whose operations all succeed makes createClusters return
\* nil in the same step: no later attempt is entered and the attempt gets no
\* rollback; success of attempt 0 leaves the run without any rollback.
\* ------------------------------------------------------------------------
C4_SuccessReturnsAtOnce ==
    \A n \in DOMAIN outcomes :
        Succeeded(outcomes[n]) =>
            /\ n = Len(outcomes)
            /\ Len(attempts) = n
            /\ ccpc = "returned"
            /\ ccResult = NilErr
            /\ RollbackOf(outcomes[n].attempt) = {}
            /\ \A e \in deleted : e.index # outcomes[n].attempt
            /\ n = 1 => (tasks = <<>> /\ deleted = {})

C4_Witness ==
    \E n \in DOMAIN outcomes :
        /\ Succeeded(outcomes[n])
        /\ n < Locations
        /\ ccpc = "returned"

\* ------------------------------------------------------------------------
\* C5 as stated: as soon as an operation of the attempt has failed, the
\* cancellation of the attempt's shared scope is triggered.
\* ------------------------------------------------------------------------
AnyFailed == \E k \in DOMAIN ops : ops[k].status = "failed"

AnyRunning == \E k \in DOMAIN ops : ops[k].status = "running"

C6_Decision ==
    \/ Len(outcomes') > Len(outcomes)
    \/ Len(tasks') > Len(tasks)
    \/ ccpc # "returned" /\ ccpc' = "returned" /\ Len(attempts) > 0
    \/ Len(attempts') > Len(attempts)

C6_DecidesAfterAllEnded ==
    [][C6_Decision =>
          /\ ~AnyRunning
          /\ ccpc = "decide" =>
                {ops[k].pair : k \in DOMAIN ops} = Pairs]_vars

C6_Witness ==
    /\ ccpc = "loop"
    /\ Len(tasks) = 1
    /\ Len(ops) >= 2
    /\ firstFailed # <<>>
    /\ firstFailed[1] = 1
    /\ ops[Len(ops)].status = "ok"

\* ------------------------------------------------------------------------
\* C7: the fan-out reports an error exactly when some operation of the
\* attempt failed, and the error it reports is the error of the operation
\* that failed first; later failures do not replace it.
\* ------------------------------------------------------------------------
C7_FirstErrorReported ==
    /\ eg.err # NilErr <=> AnyFailed
    /\ AnyFailed => (firstFailed # <<>> /\ eg.err = firstFailed[2])
    /\ ccpc = "decide" /\ AnyFailed => ops[firstFailed[1]].status = "failed"

C7_Witness ==
    /\ ccpc = "decide"
    /\ Cardinality({k \in DOMAIN ops : ops[k].status = "failed"}) >= 2
    /\ firstFailed[1] = 2
    /\ eg.err = firstFailed[2]

\* ------------------------------------------------------------------------
\* C8: a rollback is started exactly once for every attempt that failed with
\* a retryable error and for no other attempt, and each rollback deletes
\* with the index of the attempt that started it.
\* ------------------------------------------------------------------------
C8_RollbackOncePerRetryableAttempt ==
    /\ \A n \in DOMAIN outcomes :
          Cardinality(RollbackOf(outcomes[n].attempt)) =
             IF RetryableFailed(outcomes[n]) THEN 1 ELSE 0
    /\ \A t \in DOMAIN tasks :
          \E n \in DOMAIN outcomes : outcomes[n].attempt = tasks[t].origin
    /\ \A e \in deleted : e.index = e.origin

C8_Witness ==
    /\ Len(tasks) = 2
    /\ \A t \in DOMAIN tasks : tasks[t].pc = "done"
    /\ Cardinality(deleted) = 4

\* ------------------------------------------------------------------------
\* C9: after a retryable failure of attempt i with i+1 < max(len(regions),
\* len(zones)) the rollback of attempt i is started and attempt i+1 is
\* entered with the location of index i+1, whatever the state of the
\* rollback; the result of createClusters is a function of the attempts'
\* outcomes alone.
\* ------------------------------------------------------------------------
C9_ResultOf(os) ==
    IF os = <<>> THEN NilErr
    ELSE LET o == os[Len(os)]
         IN IF FatalFailed(o) THEN <<"error creating clusters:">> \o o.err
            ELSE NilErr

C9_RetryIgnoresRollback ==
    /\ \A n \in DOMAIN outcomes :
          (RetryableFailed(outcomes[n]) /\ n < Locations) =>
             /\ outcomes[n].attempt = n - 1
             /\ RollbackOf(n - 1) # {}
             /\ \/ ccpc = "loop" /\ retryCount = n /\ ENABLED LoopEnter
                \/ Len(attempts) > n /\ attempts[n + 1] = n
    /\ ccpc \in {"go", "wait", "decide"} =>
          \A k \in DOMAIN ops :
             ops[k].locationArg = locationFlag(regions, zones, attempts[Len(attempts)])
    /\ (ccpc = "returned" /\ (outcomes = <<>> \/ outcomes[Len(outcomes)].dispatched > 0))
          => ccResult = C9_ResultOf(outcomes)

C9_Witness ==
    /\ Len(attempts) = 2
    /\ RetryableFailed(outcomes[1])
    /\ tasks[1].pc = "deleteClusters"
    /\ ccpc = "returned"
    /\ Len(outcomes) = 2
    /\ Succeeded(outcomes[2])
    /\ \A k \in DOMAIN ops : ops[k].locationArg.region = RegionName(1)

\* ------------------------------------------------------------------------
\* C10: after a fatal failure, or after retryable failures on every location,
\* the test setup is not run and Up returns an error.
\* ------------------------------------------------------------------------
C10_NoSetupAfterFailure ==
    ( /\ outcomes # <<>>
      /\ \/ FatalFailed(outcomes[Len(outcomes)])
         \/ /\ Len(outcomes) = Locations
            /\ \A n \in DOMAIN outcomes : RetryableFailed(outcomes[n]) )
    => ( /\ uppc # "testSetup"
         /\ setups = 0
         /\ uppc = "done" => upResult # NilErr )

\* ------------------------------------------------------------------------
\* C11: Up runs init, project preparation, network creation, createClusters
\* and testSetup in this order; a step starts only after the one before it
\* returned no error, and after a step returned an error no later step runs
\* and Up returns a non-nil error.
\* ------------------------------------------------------------------------
UpOrder == <<"init", "prepareGcp", "createNetwork", "createClusters", "testSetup">>

AllStepsOk == Len(upSteps) = Len(UpOrder) /\ \A n \in DOMAIN upSteps : upSteps[n].ok

C11_StepsInOrder ==
    /\ Len(upSteps) <= Len(UpOrder)
    /\ \A n \in DOMAIN upSteps :
          /\ upSteps[n].name = UpOrder[n]
          /\ n < Len(upSteps) => upSteps[n].ok
    /\ ccpc # "idle" => (Len(upSteps) >= 3 /\ upSteps[3].ok)
    /\ (setupCalls # <<>> \/ setups > 0) => (Len(upSteps) = 5 /\ upSteps[4].ok)
    /\ (upSteps # <<>> /\ ~upSteps[Len(upSteps)].ok) =>
          (uppc \in {"defer", "done"} /\ upResult # NilErr)
    /\ uppc = "done" => (upResult = NilErr <=> AllStepsOk)

C11_Witness ==
    /\ uppc = "done"
    /\ Len(upSteps) = 3
    /\ ~upSteps[3].ok
    /\ upResult # NilErr

\* ------------------------------------------------------------------------
\* C12 as stated: with a repo root configured every execution of Up, also
\* one whose first step fails, has dumped the cluster logs exactly once when
\* it ends.
\* ------------------------------------------------------------------------
C12_AlwaysDumpsOnce == (RepoRoot # "" /\ uppc = "done") => dumps = 1

\* C12 amended: with a repo root configured, an execution of Up whose init
\* succeeded dumps the cluster logs exactly once, at its end, whichever later
\* step succeeded or failed, and a failure of the dump does not change the
\* result of Up; when init fails Up returns before the deferred dump is
\* registered and dumps nothing.
C12_DumpsOnceAfterInit ==
    /\ uppc # "done" => dumps = 0
    /\ uppc = "done" =>
          dumps = IF RepoRoot # "" /\ upSteps[1].ok THEN 1 ELSE 0
    /\ (uppc = "done" /\ dumpFailed) => (upResult = NilErr <=> AllStepsOk)

C12_Witness ==
    /\ uppc = "done"
    /\ dumps = 1
    /\ dumpFailed
    /\ upResult = NilErr
    /\ \E n \in DOMAIN outcomes : Succeeded(outcomes[n])

\* ------------------------------------------------------------------------
\* C13: once a call of testSetup has succeeded, every later call returns nil
\* without running any setup step; d.testPrepared is true exactly when some
\* call ran all four steps successfully, so after a failed call the next
\* call runs the steps again from the first.
\* ------------------------------------------------------------------------
SucceededBefore(n) == \E m \in 1..(n - 1) : setupCalls[m].err = NilErr

C13_SetupIsSingleton ==
    /\ testPrepared <=> \E n \in DOMAIN setupCalls : setupCalls[n].err = NilErr
    /\ \A n \in DOMAIN setupCalls :
          IF SucceededBefore(n)
          THEN setupCalls[n].err = NilErr /\ setupCalls[n].steps = <<>>
          ELSE /\ setupCalls[n].steps # <<>>
               /\ setupCalls[n].steps[1] = "prepareGcpIfNeeded"
               /\ setupCalls[n].err = NilErr =>
                     setupCalls[n].steps = <<"prepareGcpIfNeeded", "Kubeconfig",
                                             "getInstanceGroups", "ensureFirewallRules">>
    /\ setups = Cardinality({n \in DOMAIN setupCalls : setupCalls[n].steps # <<>>})

C13_Witness ==
    /\ Len(setupCalls) = 3
    /\ setupCalls[1].err # NilErr
    /\ setupCalls[2].err = NilErr
    /\ setupCalls[2].steps # <<>>
    /\ setupCalls[3].steps = <<>>
    /\ testPrepared

\* ------------------------------------------------------------------------
\* C14: isRetryableError is true exactly when some configured pattern occurs
\* somewhere in the error's message; with no pattern configured it is false
\* for every error, every failure is fatal and createClusters makes at most
\* one attempt.  The classifier is compared with the search on the error of
\* the fan-out in every state and, where createClusters classifies, on a set
\* of probe messages and pattern sets as well.
\* ------------------------------------------------------------------------
\* the pattern occurs in the message at some offset
Occurs(pat, msg) ==
    \E i \in 0..Len(msg) :
       /\ i + Len(pat) <= Len(msg)
       /\ \A x \in 1..Len(pat) : msg[i + x] = pat[x]

ProbeMessages ==
    {createClusterError(o) : o \in Outputs} \cup
    { <<>>, <<"quota">>, <<"stockout">>, <<"stock">>, <<"quota", "stockout">>,
      <<"zone", "stockout", "now">>, <<"stockout", "zone">>, <<"zone", "zone", "stockout">> }

ProbePatternSets ==
    PatternSets \cup
    { << <<"zone", "stockout">> >>, << <<"denied">>, <<"stockout", "now">> >>,
      << <<"error creating cluster:">> >>, << <<>> >> }

C14_ClassifierIsSearch ==
    /\ isRetryableError(retryableErrorPatternsCompiled, eg.err) <=>
          \E k \in DOMAIN retryableErrorPatternsCompiled :
             Occurs(retryableErrorPatternsCompiled[k], eg.err)
    /\ ~isRetryableError(<<>>, eg.err)
    /\ ccpc = "decide" =>
          /\ \A P \in ProbePatternSets : \A M \in ProbeMessages :
                isRetryableError(P, M) <=> \E k \in DOMAIN P : Occurs(P[k], M)
          /\ \A M \in ProbeMessages : ~isRetryableError(<<>>, M)
    /\ retryableErrorPatternsCompiled = <<>> =>
          /\ Len(attempts) <= 1
          /\ tasks = <<>>
          /\ \A n \in DOMAIN outcomes :
                outcomes[n].err # NilErr => (ccpc = "returned" /\ ccResult # NilErr)

C14_Witness ==
    /\ retryableErrorPatternsCompiled = <<>>
    /\ Locations >= 2
    /\ ccpc = "returned"
    /\ Len(outcomes) = 1
    /\ EndsWith(outcomes[1].err, <<"quota">>)
    /\ ccResult # NilErr

\* ------------------------------------------------------------------------
\* C15: within an attempt exactly one operation is dispatched for every
\* (project, cluster) pair, none twice and none skipped, and each operation
\* runs with the project, cluster and subnetwork arguments of its own pair
\* and with the attempt's location argument.
\* ------------------------------------------------------------------------
OwnArgs(pair, idx) ==
    [project |-> ProjectName(pair[1]),
     cluster |-> ClusterName(pair[1], pair[2]),
     subNetworkArgs |-> [project |-> ProjectName(pair[1]),
                         region |-> locationFlag(regions, zones, idx)],
     locationArg |-> locationFlag(regions, zones, idx)]

C15_OneOperationPerPair ==
    /\ ccpc \in {"go", "wait", "decide"} =>
          /\ \A k \in DOMAIN ops : ops[k].pair \in Pairs /\ ops[k].attempt = retryCount
          /\ \A k, l \in DOMAIN ops : ops[k].pair = ops[l].pair => k = l
          /\ ccpc # "go" => {ops[k].pair : k \in DOMAIN ops} = Pairs
          /\ \A k \in DOMAIN ops :
                ops[k].status # "running" => ops[k].used = OwnArgs(ops[k].pair, retryCount)
    /\ \A n \in DOMAIN outcomes : outcomes[n].dispatched \in {0, Cardinality(Pairs)}

C15_Witness ==
    /\ ccpc = "decide"
    /\ retryCount = 1
    /\ Len(projects) = 2
    /\ Len(ops) = 3
    /\ \A k \in DOMAIN ops : ops[k].status # "running"
    /\ ops[1].used # ops[2].used
    /\ ops[3].used.project # ops[1].used.project

\* ------------------------------------------------------------------------
\* C16: generateClusterNames(n, uid) returns n pairwise distinct names; all
\* of them begin with "kt2-", followed, when uid is not empty, by the first
\* 33 characters of uid and "-"; what follows is the decimal numeral of the
\* name's position, 1..n, and nothing else.
\* ------------------------------------------------------------------------
\* the first n characters of str, or all of it
FirstChars(str, n) == [k \in 1..(IF Len(str) < n THEN Len(str) ELSE n) |-> str[k]]

SharedPrefix(uid) ==
    <<"k", "t", "2", "-">> \o (IF uid = <<>> THEN <<>> ELSE FirstChars(uid, 33) \o <<"-">>)

DigitValue(c) == CHOOSE v \in 0..9 : Digits[v + 1] = c

RECURSIVE NumeralValue(_)
\* the number a string of decimal digits denotes
NumeralValue(str) ==
    IF str = <<>> THEN 0
    ELSE 10 * NumeralValue(SubSeq(str, 1, Len(str) - 1)) + DigitValue(str[Len(str)])

IsNumeral(str) ==
    /\ str # <<>>
    /\ \A k \in DOMAIN str : \E v \in 0..9 : Digits[v + 1] = str[k]
    /\ Len(str) > 1 => str[1] # "0"

C16_DistinctNamesWithSharedPrefix ==
    callArgs.called =>
       LET n == callArgs.numClusters
           pre == SharedPrefix(callArgs.uid)
           rest(i) == SubSeq(callResult[i], Len(pre) + 1, Len(callResult[i]))
       IN /\ Len(callResult) = n
          /\ \A i, j \in 1..n : callResult[i] = callResult[j] => i = j
          /\ \A i \in 1..n :
                /\ Len(callResult[i]) > Len(pre)
                /\ SubSeq(callResult[i], 1, Len(pre)) = pre
                /\ IsNumeral(rest(i))
                /\ NumeralValue(rest(i)) = i
          /\ Len(pre) <= 4 + 33 + 1

C16_Witness ==
    /\ callArgs.called
    /\ callArgs.numClusters = 11
    /\ Len(callArgs.uid) = 35
    /\ Len(callResult[11]) = 4 + 33 + 1 + 2
    /\ SubSeq(callResult[10], 39, 40) = <<"1", "0">>
    /\ callResult[1][38] = "-"

\* ------------------------------------------------------------------------
\* C17: createClusters returns nil only if in some attempt every operation
\* of the topology succeeded (stated here for the runs that made at least
\* one attempt; the run without any attempt returns nil as well).
\* ------------------------------------------------------------------------
C17_NilOnlyAfterSuccess ==
    (ccpc = "returned" /\ ccResult = NilErr /\ attempts # <<>>)
    => \E n \in DOMAIN outcomes : Succeeded(outcomes[n])

\* ------------------------------------------------------------------------
\* C18: after createClusters has returned nil from an attempt i in which
\* every operation succeeded, d.retryCount = i; the location IsUp computes,
\* and the one Kubeconfig fetched the credentials at, is the location the
\* operations of attempt i ran with, and it is not the location of any
\* earlier, failed attempt.
\* ------------------------------------------------------------------------
LastSucceeded == outcomes # <<>> /\ Succeeded(outcomes[Len(outcomes)])

\* Kubeconfig has asked for cluster credentials
CredentialsFetched == \E n \in DOMAIN setupCalls : Len(setupCalls[n].steps) >= 2

C18_StoredIndexIsSuccessfulAttempt ==
    (ccpc = "returned" /\ ccResult = NilErr /\ LastSucceeded) =>
       LET i == outcomes[Len(outcomes)].attempt
           created == {ops[k].used.locationArg : k \in DOMAIN ops}
           failedAt == {locationFlag(regions, zones, outcomes[n].attempt) :
                           n \in 1..(Len(outcomes) - 1)}
       IN /\ d_retryCount = i
          /\ created = {isUpLocation}
          /\ isUpLocation \notin failedAt
          /\ CredentialsFetched => (created = {kubeLocation} /\ kubeLocation \notin failedAt)
          /\ (uppc = "done" /\ upResult = NilErr) => CredentialsFetched

C18_Witness ==
    /\ uppc = "done"
    /\ upResult = NilErr
    /\ Len(outcomes) = 2
    /\ RetryableFailed(outcomes[1])
    /\ Succeeded(outcomes[2])
    /\ RollbackOf(0) # {}
    /\ CredentialsFetched
    /\ kubeLocation.region = RegionName(1)
    /\ d_retryCount = 1

\* ------------------------------------------------------------------------
\* C19: the rollback of attempt i deletes with index i under every
\* interleaving: also when it runs after the coordinator has entered attempt
\* i+1 and overwritten d.retryCount, it deletes nothing of attempt i+1 or of
\* any attempt that has not failed.
\* ------------------------------------------------------------------------
\* the rollback of attempt i has d.retryCount overwritten under its feet
Overtaken(t) == d_retryCount # tasks[t].origin

\* what the step of rollback t, if this is one, has deleted
DeletedBy(t) == IF tasks'[t].pc # tasks[t].pc THEN deleted' \ deleted ELSE {}

C19_RollbackKeepsItsIndex ==
    /\ [](/\ \A t \in DOMAIN tasks : tasks[t].r = tasks[t].origin
          /\ \A e \in deleted :
                /\ \E n \in DOMAIN outcomes :
                      outcomes[n].attempt = e.index /\ RetryableFailed(outcomes[n])
                /\ ccpc \in {"createSubnets", "setupNetwork", "newGroup", "go", "wait",
                             "decide"} => e.index < retryCount)
    /\ [][\A t \in DOMAIN tasks : \A e \in DeletedBy(t) :
             /\ e.index = tasks[t].origin
             /\ Overtaken(t) => e.index # d_retryCount]_vars

C19_Witness ==
    /\ ccpc \in {"go", "wait"}
    /\ retryCount = 1
    /\ ops # <<>>
    /\ \A k \in DOMAIN ops : ops[k].attempt = 1
    /\ tasks[1].pc = "deleteSubnets"
    /\ Overtaken(1)
    /\ deleted = {[what |-> "clusters", origin |-> 0, index |-> 0]}

\* ------------------------------------------------------------------------
\* C20: in every attempt createSubnets and setupNetwork come before the
\* first cluster operation of the attempt; when one of them fails,
\* createClusters returns that very error at once: the error is not
\* classified (also when a retryable pattern matches it and locations are
\* left), no operation of the attempt is dispatched, no rollback is started
\* and no further attempt is made.
\* ------------------------------------------------------------------------
SetupFailed(o) == o.setupErr # NilErr

OpsOf(attempt) == {k \in DOMAIN ops : ops[k].attempt = attempt}

C20_SetupBeforeDispatch ==
    /\ ccpc \in {"createSubnets", "setupNetwork", "newGroup"} => OpsOf(retryCount) = {}
    /\ \A n \in DOMAIN outcomes :
          SetupFailed(outcomes[n]) =>
             /\ n = Len(outcomes)
             /\ ccpc = "returned"
             /\ ccResult = outcomes[n].setupErr
             /\ outcomes[n].dispatched = 0
             /\ OpsOf(outcomes[n].attempt) = {}
             /\ RollbackOf(outcomes[n].attempt) = {}
             /\ attempts[Len(attempts)] = outcomes[n].attempt
             /\ Len(attempts) = n
    /\ \A n \in DOMAIN outcomes :
          ~SetupFailed(outcomes[n]) => outcomes[n].dispatched = Cardinality(Pairs)

C20_Witness ==
    /\ ccpc = "returned"
    /\ Locations >= 2
    /\ Len(outcomes) = 1
    /\ SetupFailed(outcomes[1])
    /\ Matches(outcomes[1].setupErr)
    /\ outcomes[1].setupErr[1] = "setupNetwork"
    /\ ccResult = outcomes[1].setupErr
    /\ tasks = <<>>
    /\ ops = <<>>

====
